---- MODULE Spec2Model ----
(***************************************************************************)
(* A model of lazy-pdb's event multiplexing and control-protocol layer:    *)
(* the main thread (src/main.rs), the terminal/tick/push-server thread     *)
(* (src/event.rs), the two subprocess stream readers (src/main.rs), the    *)
(* key handler (src/update.rs) and the application state (src/app.rs).     *)
(***************************************************************************)
EXTENDS Integers, Sequences, FiniteSets, TLC

\* ------------------------------------------------------------------ bounds

\* The number of events all producers together send in one behaviour.
MaxSent == 3

\* The longest stack a pushed snapshot carries.
MaxStack == 2

\* tick_rate (250 ms, main.rs 32), in the time units of the model's clock.
TickRate == 3

\* The longest one bound_server.poll() takes, in the same units.  Only that
\* it takes some time matters: the unit is as fine as it needs to be.
MaxServe == 2

\* ------------------------------------------------------------- constants

\* usize::MAX, the value `0usize - 1` wraps to when overflow checks are off.
\* It is 2^64 - 1 on a 64-bit target; TLC's integers are 32 bits wide, so the
\* model takes the largest value TLC represents.  The model only relies on
\* it being larger than every index and length that is reachable.
USIZE_MAX == 2147483647

\* Frame values a snapshot is built from (app.rs Frame, by function name).
Frames == {"FrameA", "FrameB"}

\* Lines the debuggee writes on its standard streams.
Lines == {"hello"}

\* crossterm key codes the terminal delivers; "x" stands for every key that
\* update() has no arm for.
KeyCodes == {"Esc", "q", "c", "n", "t", "Tab", "BackTab", "j", "Down", "k", "Up", "x"}

\* The keys whose arm performs a control-protocol call.
CommandKeys == {"c", "n", "t"}

\* What client.call(...) can produce (update.rs 24-30):
\*   ok_status_ok, ok_status_error : Ok(Ok(DebugActionResult)), by its status
\*   fault                         : Ok(Err(Fault)), a fault sent by the debuggee
\*   transport_error               : Err(_), no connection or no valid response
\*   malformed_result              : Err(_), the result does not deserialize
RpcReplies == {"ok_status_ok", "ok_status_error", "fault", "transport_error", "malformed_result"}

\* The producers of the shared channel: the event thread and the two readers.
Producers == {"term", "stdout", "stderr"}

\* All sequences over S of length at most n.
SeqsUpTo(S, n) == UNION {[1..k -> S] : k \in 0..n}

\* app.rs Snapshot: every stack of at most MaxStack frames, the empty one included.
Snapshots == {[stack |-> st] : st \in SeqsUpTo(Frames, MaxStack)}

\* --------------------------------------------------------------- app.rs

\* A constructor that starts on the Output panel with a frame index of 1.
AppNew_elsewhere ==
    [should_quit |-> FALSE,
     snapshot |-> [stack |-> <<>>],
     state |-> "Idle",
     selected_panel |-> "Output",
     selected_frame |-> 1,
     output |-> <<>>]

\* App::new(): the derived Default of every field.
AppNew ==
    [should_quit |-> FALSE,
     snapshot |-> [stack |-> <<>>],
     state |-> "Idle",
     selected_panel |-> "CallStack",
     selected_frame |-> 0,
     output |-> <<>>]

\* App::quit
quit(app) == [app EXCEPT !.should_quit = TRUE]

\* The value of "no frame" (Option::None).
NoFrame == "None"

\* App::get_selected_frame: Vec::get, bounds-checked, index from 0.
get_selected_frame(app) ==
    IF app.selected_frame < Len(app.snapshot.stack)
    THEN app.snapshot.stack[app.selected_frame + 1]
    ELSE NoFrame

\* ------------------------------------------------------ usize arithmetic

\* a - b on usize.  With overflow checks (a debug build) a < b panics; without
\* them (a release build) the result wraps modulo 2^w.
usize_sub(a, b, checks) ==
    IF a >= b THEN [panic |-> FALSE, val |-> a - b]
    ELSE IF checks THEN [panic |-> TRUE, val |-> 0]
    ELSE [panic |-> FALSE, val |-> USIZE_MAX - (b - a - 1)]

\* a + b on usize, likewise: past usize::MAX it panics or wraps.
usize_add(a, b, checks) ==
    IF a <= USIZE_MAX - b THEN [panic |-> FALSE, val |-> a + b]
    ELSE IF checks THEN [panic |-> TRUE, val |-> 0]
    ELSE [panic |-> FALSE, val |-> (a - (USIZE_MAX - b)) - 1]

\* -------------------------------------------------------------- event.rs

\* The Event enum.  Every value has the same fields; the ones a variant does
\* not carry hold a default.  Mouse and Resize payloads are not read by main.
\* (Records list their fields in one fixed order throughout the module.)
EventOf(t, c, s, l) == [snapshot |-> s, type |-> t, code |-> c, line |-> l]
EventTick == EventOf("Tick", "", [stack |-> <<>>], "")
EventKey(code) == EventOf("Key", code, [stack |-> <<>>], "")
EventMouse == EventOf("Mouse", "", [stack |-> <<>>], "")
EventResize == EventOf("Resize", "", [stack |-> <<>>], "")
EventSnapshotReceived(s) == EventOf("SnapshotReceived", "", s, "")
EventStdoutReceived(l) == EventOf("StdoutReceived", "", [stack |-> <<>>], l)
EventStderrReceived(l) == EventOf("StderrReceived", "", [stack |-> <<>>], l)
EventNone == EventOf("None", "", [stack |-> <<>>], "")

\* mpsc::Sender::send on the unbounded channel: the message joins the back.
\* A message is the event with its producer and its number in that
\* producer's emission order.
send(q, ev, p, n) == Append(q, [ev |-> ev, src |-> p, seq |-> n])

\* The update_snapshot closure registered with the push server: it sends
\* SnapshotReceived(snapshot), ignores whether the send worked, and answers
\* Ok("ok").
update_snapshot(s) == [event |-> EventSnapshotReceived(s), result |-> "ok"]

\* A receive that takes the newest message instead of the oldest.
next_newest_first(q) == [msg |-> q[Len(q)], rest |-> SubSeq(q, 1, Len(q) - 1)]

\* EventHandler::next: mpsc::Receiver::recv takes the message at the front.
next(q) == [msg |-> Head(q), rest |-> Tail(q)]

\* A handler's outcome: the application state it leaves, and whether it
\* panicked (the unwinding thread leaves `app` as it was at the panic).
Returned(app) == [app |-> app, panic |-> FALSE]
Panicked(app) == [app |-> app, panic |-> TRUE]

\* ------------------------------------------------------------- update.rs

\* send_rpc_request: client.call(..).unwrap() panics on the outer Err (the
\* transport failed, or the result did not deserialize); otherwise the inner
\* Result<DebugActionResult, Fault> is returned as it is.  `status` is not read.
send_rpc_request(reply) ==
    [panic |-> reply \in {"transport_error", "malformed_result"},
     is_ok |-> reply \in {"ok_status_ok", "ok_status_error"}]

\* update(), the local panel_order array.
panel_order == <<"CallStack", "Code", "Variables", "Output">>

\* panel_order.iter().position(|&panel| panel == p).unwrap(), from 0.
position(p) == (CHOOSE i \in 1..Len(panel_order) : panel_order[i] = p) - 1

\* Command arms that change the mode without looking at the call's result.
key_command_unchecked(app, code, reply) ==
    LET r == send_rpc_request(reply)
        target == IF code = "t" THEN "Idle" ELSE "RunningCode"
    IN  IF r.panic THEN Panicked(app)
        ELSE Returned([app EXCEPT !.state = target])

\* update(), the 'c' / 'n' / 't' arms, given what the call produced.
key_command(app, code, reply) ==
    LET r == send_rpc_request(reply)
        target == IF code = "t" THEN "Idle" ELSE "RunningCode"
    IN  IF r.panic THEN Panicked(app)
        ELSE IF r.is_ok THEN Returned([app EXCEPT !.state = target])
        ELSE Returned(app)

\* A Tab arm that stops at the last panel instead of wrapping round.
key_tab_saturating(app) ==
    Returned([app EXCEPT !.selected_panel =
        panel_order[IF position(app.selected_panel) + 1 < Len(panel_order)
                    THEN position(app.selected_panel) + 2
                    ELSE Len(panel_order)]])

\* update(), the Tab arm.
key_tab(app) ==
    Returned([app EXCEPT !.selected_panel =
        panel_order[((position(app.selected_panel) + 1) % Len(panel_order)) + 1]])

\* update(), the BackTab arm.
key_backtab(app) ==
    Returned([app EXCEPT !.selected_panel =
        panel_order[((position(app.selected_panel) + Len(panel_order) - 1)
                        % Len(panel_order)) + 1]])

\* A Down arm whose bound is off by one (<= for <).
key_down_off_by_one(app, checks) ==
    IF app.selected_panel = "CallStack"
    THEN LET last == usize_sub(Len(app.snapshot.stack), 1, checks)
         IN  IF last.panic THEN Panicked(app)
             ELSE IF app.selected_frame <= last.val
                  THEN LET inc == usize_add(app.selected_frame, 1, checks)
                       IN  IF inc.panic THEN Panicked(app)
                           ELSE Returned([app EXCEPT !.selected_frame = inc.val])
                  ELSE Returned(app)
    ELSE Returned(app)

\* update(), the 'j' / Down arm: stack.len() - 1 and selected_frame += 1 are
\* usize arithmetic.
key_down(app, checks) ==
    IF app.selected_panel = "CallStack"
    THEN LET last == usize_sub(Len(app.snapshot.stack), 1, checks)
         IN  IF last.panic THEN Panicked(app)
             ELSE IF app.selected_frame < last.val
                  THEN LET inc == usize_add(app.selected_frame, 1, checks)
                       IN  IF inc.panic THEN Panicked(app)
                           ELSE Returned([app EXCEPT !.selected_frame = inc.val])
                  ELSE Returned(app)
    ELSE Returned(app)

\* An Up arm that stops one short of the first frame (> 1 for > 0).
key_up_stops_short(app) ==
    IF app.selected_panel = "CallStack" /\ app.selected_frame > 1
    THEN Returned([app EXCEPT !.selected_frame = @ - 1])
    ELSE Returned(app)

\* update(), the 'k' / Up arm.
key_up(app) ==
    IF app.selected_panel = "CallStack" /\ app.selected_frame > 0
    THEN Returned([app EXCEPT !.selected_frame = @ - 1])
    ELSE Returned(app)

\* An update() whose command arms also drop the snapshot held and its
\* selection once the call has succeeded.
update_clearing(app, code, reply, checks) ==
    CASE code \in {"Esc", "q"} -> Returned(quit(app))
      [] code \in CommandKeys ->
            LET d == key_command(app, code, reply)
            IN  IF d.panic \/ d.app = app THEN d
                ELSE Returned([d.app EXCEPT !.snapshot = [stack |-> <<>>],
                                            !.selected_frame = 0])
      [] code = "Tab" -> key_tab(app)
      [] code = "BackTab" -> key_backtab(app)
      [] code \in {"j", "Down"} -> key_down(app, checks)
      [] code \in {"k", "Up"} -> key_up(app)
      [] OTHER -> Returned(app)

\* update(): the match on key_event.code.  `reply` is what the control-protocol
\* call produced; only the command arms read it.
update(app, code, reply, checks) ==
    CASE code \in {"Esc", "q"} -> Returned(quit(app))
      [] code \in CommandKeys -> key_command(app, code, reply)
      [] code = "Tab" -> key_tab(app)
      [] code = "BackTab" -> key_backtab(app)
      [] code \in {"j", "Down"} -> key_down(app, checks)
      [] code \in {"k", "Up"} -> key_up(app)
      [] OTHER -> Returned(app)

\* --------------------------------------------------------------- main.rs

\* A SnapshotReceived arm that extends the stack it holds by the new frames.
on_snapshot_merging(app, s, checks) ==
    LET a1 == [app EXCEPT !.snapshot = [stack |-> @.stack \o s.stack], !.state = "Breakpoint"]
        last == usize_sub(Len(a1.snapshot.stack), 1, checks)
    IN  IF last.panic THEN Panicked(a1)
        ELSE Returned([a1 EXCEPT !.selected_frame = last.val])

\* main(), the Event::SnapshotReceived arm.
on_snapshot(app, s, checks) ==
    LET a1 == [app EXCEPT !.snapshot = s, !.state = "Breakpoint"]
        last == usize_sub(Len(a1.snapshot.stack), 1, checks)
    IN  IF last.panic THEN Panicked(a1)
        ELSE Returned([a1 EXCEPT !.selected_frame = last.val])

\* Output arms that put the new line in front of the lines held so far.
on_output_prepending(app, stream, line) ==
    Returned([app EXCEPT !.output = <<[output_type |-> stream, contents |-> line]>> \o @])

\* main(), the Event::StdoutReceived / StderrReceived arms.
on_output(app, stream, line) ==
    Returned([app EXCEPT !.output = Append(@, [output_type |-> stream, contents |-> line])])

\* main(), the match on the received event.  A command key's call is answered
\* by `reply`.
dispatch(app, ev, reply, checks) ==
    CASE ev.type = "Key" -> update(app, ev.code, reply, checks)
      [] ev.type = "SnapshotReceived" -> on_snapshot(app, ev.snapshot, checks)
      [] ev.type = "StdoutReceived" -> on_output(app, "Stdout", ev.line)
      [] ev.type = "StderrReceived" -> on_output(app, "Stderr", ev.line)
      [] OTHER -> Returned(app)

\* ------------------------------------------------------------------ state

VARIABLES
    app,              \* main(): the App the main loop owns
    queue,            \* the mpsc channel: messages sent and not yet received
    mainPc,           \* where the main thread is
    evPc,             \* where the thread spawned by EventHandler::new is
    readerPc,         \* where each stream reader thread is
    overflow_checks,  \* the build: TRUE panics on integer overflow, FALSE wraps
    sent,             \* per producer, how many events it has sent
    recvd,            \* per producer, how many of its events next() returned
    taken,            \* the message the main loop received last
    reply,            \* what the control-protocol call of `taken` produced
    pre,              \* `app` when `taken` was received
    elapsed           \* last_tick.elapsed(), in time units (followed by TickSpec only)

vars == <<app, queue, mainPc, evPc, readerPc, overflow_checks, sent, recvd, taken, reply, pre, elapsed>>

Streams == {"stdout", "stderr"}

\* The process lives until main returns or the main thread panics; its other
\* threads end with it.
ProcessAlive == mainPc \notin {"done", "failed", "panicked"}

TotalSent == sent["term"] + sent["stdout"] + sent["stderr"]
CanSend == TotalSent < MaxSent

\* A producer p sends ev: the channel grows and p's count goes up.
Emit(p, ev) ==
    /\ CanSend
    /\ queue' = send(queue, ev, p, sent[p] + 1)
    /\ sent' = [sent EXCEPT ![p] = @ + 1]

Init ==
    /\ app = AppNew
    /\ queue = <<>>
    /\ mainPc = "start"
    /\ evPc = "unspawned"
    /\ readerPc = [s \in Streams |-> "unspawned"]
    /\ overflow_checks \in BOOLEAN
    /\ sent = [p \in Producers |-> 0]
    /\ recvd = [p \in Producers |-> 0]
    /\ taken = [ev |-> EventNone, src |-> "none", seq |-> 0]
    /\ reply = "none"
    /\ pre = AppNew
    /\ elapsed = 0

\* ------------------------------------------------- main thread (main.rs)

\* Terminal::new(backend)? and EventHandler::new(250, 8080): a terminal that
\* cannot be opened makes main return the error; otherwise the channel is
\* created and the event thread spawned.
MainCreateEvents(ok) ==
    /\ mainPc = "start"
    /\ mainPc' = IF ok THEN "enter" ELSE "failed"
    /\ evPc' = IF ok THEN "bind" ELSE evPc
    /\ UNCHANGED <<app, queue, readerPc, overflow_checks, sent, recvd, taken, reply, pre, elapsed>>

\* tui.enter()?: a terminal that cannot be set up makes main return the error.
MainEnter(ok) ==
    /\ mainPc = "enter"
    /\ mainPc' = IF ok THEN "spawn" ELSE "failed"
    /\ UNCHANGED <<app, queue, evPc, readerPc, overflow_checks, sent, recvd, taken, reply, pre, elapsed>>

\* Starting the debuggee (.expect) and spawning the two reader threads.
MainSpawn(ok) ==
    /\ mainPc = "spawn"
    /\ mainPc' = IF ok THEN "loop" ELSE "panicked"
    /\ readerPc' = IF ok THEN [s \in Streams |-> "running"] ELSE readerPc
    /\ UNCHANGED <<app, queue, evPc, overflow_checks, sent, recvd, taken, reply, pre, elapsed>>

\* The body of one iteration of `while !app.should_quit`, with the channel
\* holding q: draw, next(), dispatch.  A command key's handler stops inside
\* send_rpc_request until the call returns.
Iteration(q) ==
    LET got == next(q)
        m == got.msg
    IN  /\ queue' = got.rest
        /\ recvd' = [recvd EXCEPT ![m.src] = @ + 1]
        /\ taken' = m
        /\ pre' = app
        /\ IF m.ev.type = "Key" /\ m.ev.code \in CommandKeys
           THEN /\ mainPc' = "rpc"
                /\ reply' = "pending"
                /\ app' = app
           ELSE LET d == dispatch(app, m.ev, "none", overflow_checks)
                IN  /\ app' = d.app
                    /\ mainPc' = IF d.panic THEN "panicked" ELSE "loop"
                    /\ reply' = "none"

\* A loop that goes on receiving while a command's call is still outstanding.
MainLoop_eager ==
    /\ mainPc \in {"loop", "rpc"}
    /\ ~app.should_quit
    /\ queue # <<>>
    /\ Iteration(queue)
    /\ UNCHANGED <<evPc, readerPc, overflow_checks, sent, elapsed>>

\* One iteration of the main loop: next() returns once the channel holds a
\* message.  tui.draw only reads `app`; its terminal errors are left out.
MainLoop ==
    /\ mainPc = "loop"
    /\ ~app.should_quit
    /\ queue # <<>>
    /\ Iteration(queue)
    /\ UNCHANGED <<evPc, readerPc, overflow_checks, sent, elapsed>>

\* The control-protocol call returns r and the command arm finishes.
MainRpcReturn(r) ==
    /\ mainPc = "rpc"
    /\ LET d == dispatch(app, taken.ev, r, overflow_checks)
       IN  /\ app' = d.app
           /\ mainPc' = IF d.panic THEN "panicked" ELSE "loop"
    /\ reply' = r
    /\ UNCHANGED <<queue, evPc, readerPc, overflow_checks, sent, recvd, taken, pre, elapsed>>

\* The loop condition fails once should_quit is set.
MainLeaveLoop ==
    /\ mainPc = "loop"
    /\ app.should_quit
    /\ mainPc' = "kill"
    /\ UNCHANGED <<app, queue, evPc, readerPc, overflow_checks, sent, recvd, taken, reply, pre, elapsed>>

\* python_process.kill()?
MainKill(ok) ==
    /\ mainPc = "kill"
    /\ mainPc' = IF ok THEN "exit" ELSE "failed"
    /\ UNCHANGED <<app, queue, evPc, readerPc, overflow_checks, sent, recvd, taken, reply, pre, elapsed>>

\* tui.exit()?, then main returns.
MainExit(ok) ==
    /\ mainPc = "exit"
    /\ mainPc' = IF ok THEN "done" ELSE "failed"
    /\ UNCHANGED <<app, queue, evPc, readerPc, overflow_checks, sent, recvd, taken, reply, pre, elapsed>>

\* ------------------------------------------------ event thread (event.rs)

\* rpc_server.bind(&socket).expect(..): a failed bind panics this thread.
EvBind(ok) ==
    /\ ProcessAlive
    /\ evPc = "bind"
    /\ evPc' = IF ok THEN "poll" ELSE "bind_panicked"
    /\ UNCHANGED <<app, queue, mainPc, readerPc, overflow_checks, sent, recvd, taken, reply, pre, elapsed>>

\* event::poll(timeout) returned true and event::read() gave a key press.
EvPollKey(code) ==
    /\ ProcessAlive
    /\ evPc = "poll"
    /\ Emit("term", EventKey(code))
    /\ evPc' = "tick"
    /\ UNCHANGED <<app, mainPc, readerPc, overflow_checks, recvd, taken, reply, pre, elapsed>>

\* event::read() gave a mouse event or a resize.
EvPollPointer(ev) ==
    /\ ProcessAlive
    /\ evPc = "poll"
    /\ Emit("term", ev)
    /\ evPc' = "tick"
    /\ UNCHANGED <<app, mainPc, readerPc, overflow_checks, recvd, taken, reply, pre, elapsed>>

\* The poll timed out, or read() gave a key release or a focus change:
\* nothing is sent.  A poll or read error panics the thread (.expect).
EvPollQuiet(ok) ==
    /\ ProcessAlive
    /\ evPc = "poll"
    /\ evPc' = IF ok THEN "tick" ELSE "poll_panicked"
    /\ UNCHANGED <<app, queue, mainPc, readerPc, overflow_checks, sent, recvd, taken, reply, pre, elapsed>>

\* if last_tick.elapsed() >= tick_rate: send Tick and reset the clock.
EvTick(due) ==
    /\ ProcessAlive
    /\ evPc = "tick"
    /\ IF due THEN Emit("term", EventTick) ELSE UNCHANGED <<queue, sent>>
    /\ evPc' = "serve"
    /\ UNCHANGED <<app, mainPc, readerPc, overflow_checks, recvd, taken, reply, pre, elapsed>>

\* bound_server.poll() with no call pending.
EvServeIdle ==
    /\ ProcessAlive
    /\ evPc = "serve"
    /\ evPc' = "poll"
    /\ UNCHANGED <<app, queue, mainPc, readerPc, overflow_checks, sent, recvd, taken, reply, pre, elapsed>>

\* A push closure that, besides sending the event, stores the snapshot in
\* the application state itself.
EvServePush_writing(s) ==
    /\ ProcessAlive
    /\ evPc = "serve"
    /\ Emit("term", EventSnapshotReceived(s))
    /\ evPc' = "poll"
    /\ app' = [app EXCEPT !.snapshot = s, !.state = "Breakpoint"]
    /\ UNCHANGED <<mainPc, readerPc, overflow_checks, recvd, taken, reply, pre, elapsed>>

\* bound_server.poll() serving update_snapshot(s): the closure sends
\* SnapshotReceived(s) and answers "ok".
EvServePush(s) ==
    /\ ProcessAlive
    /\ evPc = "serve"
    /\ Emit("term", update_snapshot(s).event)
    /\ evPc' = "poll"
    /\ UNCHANGED <<app, mainPc, readerPc, overflow_checks, recvd, taken, reply, pre, elapsed>>

\* ------------------------------------------- stream readers (main.rs)

\* A reader's `for line in lines`: one line read and sent.
ReaderLine(s, l) ==
    /\ ProcessAlive
    /\ readerPc[s] = "running"
    /\ Emit(s, IF s = "stdout" THEN EventStdoutReceived(l) ELSE EventStderrReceived(l))
    /\ UNCHANGED <<app, mainPc, evPc, readerPc, overflow_checks, recvd, taken, reply, pre, elapsed>>

\* A reader that reports a failed read to the main loop as one more event
\* before it stops.
ReaderStop_escalating(s, eof) ==
    /\ ProcessAlive
    /\ readerPc[s] = "running"
    /\ readerPc' = [readerPc EXCEPT ![s] = IF eof THEN "ended" ELSE "panicked"]
    /\ IF eof THEN UNCHANGED <<queue, sent>>
       ELSE /\ queue' = send(queue, EventStderrReceived("read failed"), s, sent[s] + 1)
            /\ sent' = [sent EXCEPT ![s] = @ + 1]
    /\ UNCHANGED <<app, mainPc, evPc, overflow_checks, recvd, taken, reply, pre, elapsed>>

\* The stream ends (the loop ends, the thread returns) or a read fails
\* (line.unwrap() panics the reader thread).
ReaderStop(s, eof) ==
    /\ ProcessAlive
    /\ readerPc[s] = "running"
    /\ readerPc' = [readerPc EXCEPT ![s] = IF eof THEN "ended" ELSE "panicked"]
    /\ UNCHANGED <<app, queue, mainPc, evPc, overflow_checks, sent, recvd, taken, reply, pre, elapsed>>

\* ------------------------------------------------------ specification

MainStep ==
    \/ \E ok \in BOOLEAN : MainCreateEvents(ok)
    \/ \E ok \in BOOLEAN : MainEnter(ok)
    \/ \E ok \in BOOLEAN : MainSpawn(ok)
    \/ MainLoop
    \/ MainLeaveLoop
    \/ \E ok \in BOOLEAN : MainKill(ok)
    \/ \E ok \in BOOLEAN : MainExit(ok)

\* The inputs the threads of the whole program are run on.
SystemKeys == {"q", "c", "j"}
SystemSnapshots == {[stack |-> <<>>], [stack |-> <<"FrameA">>]}

\* The whole program: the main thread, the event thread and the two readers,
\* interleaved step by step.
Next ==
    \/ MainStep
    \/ \E r \in RpcReplies : MainRpcReturn(r)
    \/ \E ok \in BOOLEAN : EvBind(ok)
    \/ \E code \in SystemKeys : EvPollKey(code)
    \/ \E ev \in {EventMouse, EventResize} : EvPollPointer(ev)
    \/ \E ok \in BOOLEAN : EvPollQuiet(ok)
    \/ \E due \in BOOLEAN : EvTick(due)
    \/ EvServeIdle
    \/ \E s \in SystemSnapshots : EvServePush(s)
    \/ \E s \in Streams, l \in Lines : ReaderLine(s, l)
    \/ \E s \in Streams, eof \in BOOLEAN : ReaderStop(s, eof)

Spec == Init /\ [][Next]_vars

\* ------------------------------------------- the main loop on every input

\* The program once main has entered its loop with all three producer threads
\* running (Spec reaches it by MainCreateEvents(TRUE), EvBind(TRUE),
\* MainEnter(TRUE), MainSpawn(TRUE)).
LoopInit ==
    /\ app = AppNew
    /\ queue = <<>>
    /\ mainPc = "loop"
    /\ evPc = "poll"
    /\ readerPc = [s \in Streams |-> "running"]
    /\ overflow_checks \in BOOLEAN
    /\ sent = [p \in Producers |-> 0]
    /\ recvd = [p \in Producers |-> 0]
    /\ taken = [ev |-> EventNone, src |-> "none", seq |-> 0]
    /\ reply = "none"
    /\ pre = AppNew
    /\ elapsed = 0

\* Producer p sends ev while the main loop waits in next() on the empty
\* channel, and the loop receives and handles it at once.  The producers'
\* own positions are not followed here.
Deliver(p, ev) ==
    /\ mainPc = "loop"
    /\ ~app.should_quit
    /\ queue = <<>>
    /\ CanSend
    /\ sent' = [sent EXCEPT ![p] = @ + 1]
    /\ Iteration(send(queue, ev, p, sent[p] + 1))
    /\ UNCHANGED <<evPc, readerPc, overflow_checks, elapsed>>

\* The main loop fed every event the producers can send, in every order.
LoopNext ==
    \/ \E code \in KeyCodes : Deliver("term", EventKey(code))
    \/ \E ev \in {EventTick, EventMouse, EventResize} : Deliver("term", ev)
    \/ \E s \in Snapshots : Deliver("term", EventSnapshotReceived(s))
    \/ \E l \in Lines : Deliver("stdout", EventStdoutReceived(l))
    \/ \E l \in Lines : Deliver("stderr", EventStderrReceived(l))
    \/ \E r \in RpcReplies : MainRpcReturn(r)
    \/ MainLeaveLoop
    \/ \E ok \in BOOLEAN : MainKill(ok)
    \/ \E ok \in BOOLEAN : MainExit(ok)

LoopSpec == LoopInit /\ [][LoopNext]_vars

\* Spec with the scheduling the operating system gives the main thread: it
\* takes every step it can take on its own.  Every control-protocol call is
\* taken to return as well (with a result or with a failure), so that no
\* behaviour of FairSpec rests on a debuggee that never answers.  Nothing
\* obliges the producers to send.
FairSpec ==
    /\ Spec
    /\ WF_vars(MainStep)
    /\ WF_vars(\E r \in RpcReplies : MainRpcReturn(r))

\* --------------------------------------- the event thread with its clock

\* tick_rate.checked_sub(last_tick.elapsed()).unwrap_or(tick_rate): the
\* subtraction has no result when more than tick_rate has elapsed.
poll_timeout(e) == IF e <= TickRate THEN TickRate - e ELSE TickRate

\* The event thread at its loop, last_tick taken at most MaxServe ago
\* (event.rs 42-54 lie between Instant::now() and the loop).  The main loop
\* and the readers are not followed: what is sent stays in the channel.
TickInit ==
    /\ app = AppNew
    /\ queue = <<>>
    /\ mainPc = "loop"
    /\ evPc = "poll"
    /\ readerPc = [s \in Streams |-> "running"]
    /\ overflow_checks \in BOOLEAN
    /\ sent = [p \in Producers |-> 0]
    /\ recvd = [p \in Producers |-> 0]
    /\ taken = [ev |-> EventNone, src |-> "none", seq |-> 0]
    /\ reply = "none"
    /\ pre = AppNew
    /\ elapsed \in 0..MaxServe

\* event::poll(timeout) returns true after d <= timeout and read() gives a
\* key press.
ClockPollKey(code, d) ==
    /\ evPc = "poll"
    /\ d \in 0..poll_timeout(elapsed)
    /\ elapsed' = elapsed + d
    /\ Emit("term", EventKey(code))
    /\ evPc' = "tick"
    /\ UNCHANGED <<app, mainPc, readerPc, overflow_checks, recvd, taken, reply, pre>>

\* ... read() gives a mouse event or a resize.
ClockPollPointer(ev, d) ==
    /\ evPc = "poll"
    /\ d \in 0..poll_timeout(elapsed)
    /\ elapsed' = elapsed + d
    /\ Emit("term", ev)
    /\ evPc' = "tick"
    /\ UNCHANGED <<app, mainPc, readerPc, overflow_checks, recvd, taken, reply, pre>>

\* ... read() gives a key release or a focus change: nothing is sent.
ClockPollIgnored(d) ==
    /\ evPc = "poll"
    /\ d \in 0..poll_timeout(elapsed)
    /\ elapsed' = elapsed + d
    /\ evPc' = "tick"
    /\ UNCHANGED <<app, queue, mainPc, readerPc, overflow_checks, sent, recvd, taken, reply, pre>>

\* event::poll(timeout) returns false: the whole timeout has passed.
ClockPollTimedOut ==
    /\ evPc = "poll"
    /\ elapsed' = elapsed + poll_timeout(elapsed)
    /\ evPc' = "tick"
    /\ UNCHANGED <<app, queue, mainPc, readerPc, overflow_checks, sent, recvd, taken, reply, pre>>

\* A tick check that starts the next iteration at once after it has sent a
\* Tick, passing over bound_server.poll().
ClockTick_skipping ==
    /\ evPc = "tick"
    /\ IF elapsed >= TickRate
       THEN Emit("term", EventTick) /\ elapsed' = 0 /\ evPc' = "poll"
       ELSE UNCHANGED <<queue, sent, elapsed>> /\ evPc' = "serve"
    /\ UNCHANGED <<app, mainPc, readerPc, overflow_checks, recvd, taken, reply, pre>>

\* if last_tick.elapsed() >= tick_rate { send(Tick); last_tick = Instant::now() }
ClockTick ==
    /\ evPc = "tick"
    /\ IF elapsed >= TickRate
       THEN Emit("term", EventTick) /\ elapsed' = 0
       ELSE UNCHANGED <<queue, sent, elapsed>>
    /\ evPc' = "serve"
    /\ UNCHANGED <<app, mainPc, readerPc, overflow_checks, recvd, taken, reply, pre>>

\* bound_server.poll() with no call pending; it takes d.
ClockServeIdle(d) ==
    /\ evPc = "serve"
    /\ elapsed' = elapsed + d
    /\ evPc' = "poll"
    /\ UNCHANGED <<app, queue, mainPc, readerPc, overflow_checks, sent, recvd, taken, reply, pre>>

\* bound_server.poll() serving update_snapshot(s); it takes d.
ClockServePush(s, d) ==
    /\ evPc = "serve"
    /\ elapsed' = elapsed + d
    /\ Emit("term", update_snapshot(s).event)
    /\ evPc' = "poll"
    /\ UNCHANGED <<app, mainPc, readerPc, overflow_checks, recvd, taken, reply, pre>>

TickNext ==
    \/ \E code \in SystemKeys, d \in 0..TickRate : ClockPollKey(code, d)
    \/ \E ev \in {EventMouse, EventResize}, d \in 0..TickRate : ClockPollPointer(ev, d)
    \/ \E d \in 0..TickRate : ClockPollIgnored(d)
    \/ ClockPollTimedOut
    \/ ClockTick
    \/ \E d \in 0..MaxServe : ClockServeIdle(d)
    \/ \E s \in SystemSnapshots, d \in 0..MaxServe : ClockServePush(s, d)

\* The event thread's loop with the time each blocking call takes.
TickSpec == TickInit /\ [][TickNext]_vars

\* ----------------------------------------------------------------- claims

\* The messages of producer p that the channel holds, oldest first.
Pending(p) == SelectSeq(queue, LAMBDA m : m.src = p)

IsKey(m, codes) == m.ev.type = "Key" /\ m.ev.code \in codes
IsSnapshot(m) == m.ev.type = "SnapshotReceived"

\* C1: for every producer, what next() has returned so far followed by what
\* the channel still holds is exactly what the producer sent, in its
\* emission order: nothing is lost, duplicated or reordered within a producer.
C1_PerProducerFifo ==
    /\ \A p \in Producers :
          /\ Len(Pending(p)) = sent[p] - recvd[p]
          /\ \A i \in 1..Len(Pending(p)) : Pending(p)[i].seq = recvd[p] + i
    /\ taken.src \in Producers => taken.seq = recvd[taken.src]

\* Two events of the event thread were received with a line of the stdout
\* reader between or around them.
C1_Witness ==
    /\ recvd["term"] = 2
    /\ recvd["stdout"] = 1
    /\ taken.src = "term"
    /\ taken.seq = 2

\* C2: once SnapshotReceived(s) with a non-empty stack is handled, whatever
\* the state was before, the snapshot is s, the mode is Breakpoint, the last
\* frame of s is selected and nothing else has changed.
C2_SnapshotReplaces ==
    (IsSnapshot(taken) /\ taken.ev.snapshot.stack # <<>>) =>
        /\ mainPc = "loop"
        /\ app = [pre EXCEPT !.snapshot = taken.ev.snapshot,
                             !.state = "Breakpoint",
                             !.selected_frame = Len(taken.ev.snapshot.stack) - 1]

\* A snapshot arrived in mode RunningCode, over another non-empty snapshot.
C2_Witness ==
    /\ IsSnapshot(taken)
    /\ taken.ev.snapshot.stack # <<>>
    /\ pre.state = "RunningCode"
    /\ pre.snapshot.stack # <<>>
    /\ pre.snapshot # taken.ev.snapshot
    /\ app.state = "Breakpoint"

\* C3: handling SnapshotReceived(s) with an empty stack neither crashes the
\* main loop nor underflows: the loop goes on, and the selected index is a
\* clamped value at which no frame is selected.
C3_EmptySnapshotClamped ==
    (IsSnapshot(taken) /\ taken.ev.snapshot.stack = <<>>) =>
        /\ mainPc # "panicked"
        /\ app.selected_frame # USIZE_MAX
        /\ get_selected_frame(app) = NoFrame

\* C4: whenever the stack is non-empty the selected index is inside it, and
\* whenever it is empty get_selected_frame yields no frame.
C4_SelectedFrameInRange ==
    /\ app.snapshot.stack # <<>> => app.selected_frame < Len(app.snapshot.stack)
    /\ app.snapshot.stack = <<>> => get_selected_frame(app) = NoFrame

\* Down moved the selection to the last frame of a non-empty stack.
C4_Witness ==
    /\ IsKey(taken, {"j", "Down"})
    /\ mainPc = "loop"
    /\ app.snapshot.stack # <<>>
    /\ app.selected_frame = pre.selected_frame + 1
    /\ app.selected_frame = Len(app.snapshot.stack) - 1

\* The call returned Ok(result); anything else is a failed call.
CallSucceeded(r) == r \in {"ok_status_ok", "ok_status_error"}

\* C5: after the handler of a command key, a failed call has left the mode
\* as it was, and a successful one has set it to RunningCode (continue,
\* next) or Idle (stop), whatever it was.
C5_ModeFollowsCall ==
    (IsKey(taken, CommandKeys) /\ reply # "pending") =>
        app.state = IF CallSucceeded(reply)
                    THEN (IF taken.ev.code = "t" THEN "Idle" ELSE "RunningCode")
                    ELSE pre.state

\* A stop whose call came back as a fault, at a breakpoint: the mode stays.
C5_Witness ==
    /\ IsKey(taken, {"t"})
    /\ reply = "fault"
    /\ pre.state = "Breakpoint"
    /\ app.state = "Breakpoint"

\* C6: a call that fails in the transport, or whose result does not
\* deserialize, leaves the main loop running with the mode unchanged.
C6_FailedCallRecovered ==
    (IsKey(taken, CommandKeys) /\ reply \in {"transport_error", "malformed_result"}) =>
        /\ mainPc = "loop"
        /\ app.state = pre.state

\* A quit key is in the channel of the running program.
QuitPending ==
    /\ mainPc \in {"loop", "rpc"}
    /\ \E i \in 1..Len(queue) : IsKey(queue[i], {"Esc", "q"})

\* C7: after startup, a quit key the terminal delivered is eventually
\* handled: should_quit becomes true.
C7_QuitEventuallyHandled == QuitPending ~> app.should_quit

\* C8: no state has the push server's bind failed and the main loop running.
C8_BindFailureIsFatal == evPc = "bind_panicked" => mainPc \notin {"loop", "rpc"}

NavigationKeys == {"j", "Down", "k", "Up"}

\* C9: on the CallStack panel with a non-empty stack, Up at index 0 and Down
\* at the last index change nothing, and otherwise Up takes exactly one from
\* the selected index and Down adds exactly one to it.
C9_NavigationClamped ==
    (/\ IsKey(taken, NavigationKeys)
     /\ pre.selected_panel = "CallStack"
     /\ pre.snapshot.stack # <<>>) =>
        /\ mainPc = "loop"
        /\ app = [pre EXCEPT !.selected_frame =
                    IF taken.ev.code \in {"k", "Up"}
                    THEN (IF @ = 0 THEN 0 ELSE @ - 1)
                    ELSE (IF @ = Len(pre.snapshot.stack) - 1 THEN @ ELSE @ + 1)]
        /\ app.selected_frame \in 0..(Len(app.snapshot.stack) - 1)

\* Up moved the selection from index 1 to index 0.
C9_Witness ==
    /\ IsKey(taken, {"k", "Up"})
    /\ pre.selected_panel = "CallStack"
    /\ pre.selected_frame = 1
    /\ app.selected_frame = 0
    /\ Len(app.snapshot.stack) = 2

\* C10: on the CallStack panel with an empty stack, a navigation key changes
\* nothing and the main loop goes on.
C10_EmptyStackNavigationNoOp ==
    (/\ IsKey(taken, NavigationKeys)
     /\ pre.selected_panel = "CallStack"
     /\ pre.snapshot.stack = <<>>) =>
        /\ mainPc = "loop"
        /\ app = pre

\* The state update() leaves when it handles key `code` in state a (the
\* panel keys make no call and cannot panic).
AfterKey(a, code) == update(a, code, "none", overflow_checks).app

\* C11: in every state the program reaches, four Tabs lead back to the
\* state, BackTab undoes Tab and Tab undoes BackTab; and once the loop has
\* handled a Tab (a BackTab), only the panel has changed and the opposite
\* key leads back to the state before it.
C11_PanelCycle ==
    /\ AfterKey(AfterKey(AfterKey(AfterKey(app, "Tab"), "Tab"), "Tab"), "Tab") = app
    /\ AfterKey(AfterKey(app, "Tab"), "BackTab") = app
    /\ AfterKey(AfterKey(app, "BackTab"), "Tab") = app
    /\ AfterKey(app, "Tab").selected_panel # app.selected_panel
    /\ IsKey(taken, {"Tab"}) =>
          /\ mainPc = "loop"
          /\ app = [pre EXCEPT !.selected_panel = app.selected_panel]
          /\ AfterKey(app, "BackTab") = pre
    /\ IsKey(taken, {"BackTab"}) =>
          /\ mainPc = "loop"
          /\ app = [pre EXCEPT !.selected_panel = app.selected_panel]
          /\ AfterKey(app, "Tab") = pre

\* Three Tabs took the selection from CallStack to Output, the panel from
\* which the next Tab wraps round.
C11_Witness ==
    /\ IsKey(taken, {"Tab"})
    /\ recvd["term"] = 3
    /\ pre.selected_panel = "Variables"
    /\ app.selected_panel = "Output"
    /\ AfterKey(app, "Tab").selected_panel = "CallStack"

\* The OutputType a reader's event is stored under.
OutputTag(m) == IF m.ev.type = "StdoutReceived" THEN "Stdout" ELSE "Stderr"

IsOutput(m) == m.ev.type \in {"StdoutReceived", "StderrReceived"}

\* C12: once StdoutReceived(line) or StderrReceived(line) is handled, in
\* whatever mode, the output holds the entries it held, in their order,
\* followed by one new entry with the event's line and the matching stream
\* tag; nothing else of the state has changed and the loop goes on.
C12_OutputAppended ==
    IsOutput(taken) =>
        /\ mainPc = "loop"
        /\ Len(app.output) = Len(pre.output) + 1
        /\ SubSeq(app.output, 1, Len(pre.output)) = pre.output
        /\ app.output[Len(app.output)] =
              [output_type |-> OutputTag(taken), contents |-> taken.ev.line]
        /\ app = [pre EXCEPT !.output = app.output]

\* At a breakpoint with one stdout line held, a stderr line was appended.
C12_Witness ==
    /\ IsOutput(taken)
    /\ taken.ev.type = "StderrReceived"
    /\ pre.state = "Breakpoint"
    /\ Len(pre.output) = 1
    /\ pre.output[1].output_type = "Stdout"
    /\ Len(app.output) = 2
    /\ app.output[2].output_type = "Stderr"

\* C13: once a quit key has set should_quit it stays set, the loop receives
\* and applies no further event, the terminal-restore step is entered only
\* from the step that terminates the debuggee, and every execution in which
\* should_quit was set reaches the terminal-restore step.
C13_QuitShutsDownInOrder ==
    /\ [][app.should_quit => (app'.should_quit /\ app' = app /\ recvd' = recvd)]_vars
    /\ [][(mainPc' = "exit" /\ mainPc # "exit") => mainPc = "kill"]_vars
    /\ (app.should_quit ~> mainPc = "exit")

Stopped == {"ended", "panicked"}

\* C14: the step in which a reader stops, at the end of its stream or on a
\* failed read, changes nothing but that reader's own position: no event is
\* sent, and the other reader, the event thread, the main loop and the
\* application state are as they were; a stopped reader stays stopped and
\* sends no further line.
C14_ReaderStopsAlone ==
    [][\A s \in Streams :
          /\ (readerPc[s] = "running" /\ readerPc'[s] # "running") =>
                /\ readerPc'[s] \in Stopped
                /\ \A o \in Streams \ {s} : readerPc'[o] = readerPc[o]
                /\ UNCHANGED <<app, queue, mainPc, evPc, sent, recvd, taken>>
          /\ readerPc[s] \in Stopped =>
                /\ readerPc'[s] = readerPc[s]
                /\ sent'[s] = sent[s]]_vars

\* The stdout reader died on a failed read after one line; the stderr
\* reader and the event thread still run, and the main loop has since
\* received a line of the stderr reader and waits for the next event.
C14_Witness ==
    /\ readerPc["stdout"] = "panicked"
    /\ readerPc["stderr"] = "running"
    /\ evPc \in {"poll", "tick", "serve"}
    /\ mainPc = "loop"
    /\ sent["stdout"] = 1
    /\ recvd["stdout"] = 1
    /\ taken.src = "stderr"
    /\ ~app.should_quit

\* C15: the state App::new() builds, with which the main loop is entered,
\* has mode Idle, panel CallStack, selected index 0, an empty stack, no
\* output lines and should_quit false; it is the state the first handler
\* runs on.
C15_InitialState ==
    /\ AppNew.state = "Idle"
    /\ AppNew.selected_panel = "CallStack"
    /\ AppNew.selected_frame = 0
    /\ AppNew.snapshot.stack = <<>>
    /\ AppNew.output = <<>>
    /\ AppNew.should_quit = FALSE
    /\ DOMAIN AppNew = {"should_quit", "snapshot", "state", "selected_panel",
                        "selected_frame", "output"}
    /\ recvd = [p \in Producers |-> 0] => app = AppNew
    /\ (\A p \in Producers : recvd[p] = IF p = taken.src THEN 1 ELSE 0) => pre = AppNew

\* The first event, a 'j', was handled on the state App::new() built.
C15_Witness ==
    /\ recvd = [p \in Producers |-> IF p = "term" THEN 1 ELSE 0]
    /\ IsKey(taken, {"j"})
    /\ pre = AppNew
    /\ pre.state = "Idle"
    /\ pre.selected_panel = "CallStack"

\* Every event the main loop can receive.
LoopEvents ==
    {EventKey(code) : code \in KeyCodes}
        \cup {EventTick, EventMouse, EventResize}
        \cup {EventSnapshotReceived(s) : s \in Snapshots}
        \cup {EventStdoutReceived(l) : l \in Lines}
        \cup {EventStderrReceived(l) : l \in Lines}

\* AppState::Error(message), whatever the message.
ErrorMode == "Error"

\* C16: in every mode the running loop reaches there is an event, or a
\* command whose call fails, whose handling sets the mode to Error; and a
\* successful continue, next or stop handled in the Error mode leaves it.
C16_ErrorReachableNonTerminal ==
    /\ (mainPc = "loop" /\ ~app.should_quit) =>
          \E ev \in LoopEvents, r \in RpcReplies :
              dispatch(app, ev, r, overflow_checks).app.state = ErrorMode
    /\ \A code \in CommandKeys, r \in RpcReplies :
          CallSucceeded(r) =>
              update([app EXCEPT !.state = ErrorMode], code, r, overflow_checks).app.state
                  # ErrorMode

\* A control-protocol call is in flight: the main thread is inside
\* send_rpc_request.
CallInFlight == mainPc = "rpc"

\* C17: a call is in flight only for the command key received last; while it
\* is, the loop receives nothing and the state is not touched; the step that
\* ends the call applies that command's mode transition; and an event is
\* received only when no call is in flight.
C17_CommandsSerialized ==
    /\ [](CallInFlight => (IsKey(taken, CommandKeys) /\ reply = "pending" /\ app = pre))
    /\ [][recvd' # recvd => ~CallInFlight]_vars
    /\ [][CallInFlight =>
            /\ recvd' = recvd
            /\ taken' = taken
            /\ \/ CallInFlight' /\ app' = app /\ reply' = reply
               \/ /\ ~CallInFlight'
                  /\ reply' \in RpcReplies
                  /\ app' = key_command(pre, taken.ev.code, reply').app]_vars

\* A call is in flight for one command key while two more command keys
\* wait in the channel.
C17_Witness ==
    /\ CallInFlight
    /\ Len(queue) = 2
    /\ \A i \in 1..2 : IsKey(queue[i], CommandKeys)

\* The step is one of the main loop's: it receives an event, or it ends the
\* call of the command received last.
ConsumerStep ==
    \/ mainPc = "loop" /\ recvd' # recvd
    \/ CallInFlight /\ ~CallInFlight'

\* C18: a step in which a producer sends leaves the application state as it
\* is and only adds its event to the back of the channel; the state changes
\* only in steps of the main loop; and whenever the loop is between two
\* receives the state is the state before the last receive with exactly
\* that one event applied.
C18_SingleWriter ==
    /\ [][sent' # sent =>
            /\ app' = app
            /\ Len(queue') = Len(queue) + 1
            /\ SubSeq(queue', 1, Len(queue)) = queue
            /\ recvd' = recvd]_vars
    /\ [][app' # app => ConsumerStep]_vars
    /\ [](taken.src \in Producers =>
            app = IF CallInFlight THEN pre
                  ELSE dispatch(pre, taken.ev, reply, overflow_checks).app)

\* The event thread and the stdout reader have each sent; the main loop has
\* handled the pushed snapshot only, and the reader's line waits in the channel.
C18_Witness ==
    /\ sent["term"] = 1
    /\ sent["stdout"] = 1
    /\ recvd["term"] = 1
    /\ recvd["stdout"] = 0
    /\ IsSnapshot(taken)
    /\ app.state = "Breakpoint"
    /\ app.output = <<>>
    /\ Len(queue) = 1
    /\ mainPc = "loop"

\* C19: the snapshot held changes only in a step that handles
\* SnapshotReceived; and after the handler of a command key, whether its
\* call is outstanding, succeeded, failed or panicked, the snapshot, the
\* selected index, the selected panel and the output lines are as they were
\* before it: at most the mode differs.
C19_OnlyPushChangesSnapshot ==
    /\ [][app'.snapshot # app.snapshot =>
            (IsSnapshot(taken') /\ recvd' # recvd /\ app'.snapshot = taken'.ev.snapshot)]_vars
    /\ [](IsKey(taken, CommandKeys) =>
            /\ app.snapshot = pre.snapshot
            /\ app.selected_frame = pre.selected_frame
            /\ app.selected_panel = pre.selected_panel
            /\ app.output = pre.output
            /\ app = [pre EXCEPT !.state = app.state])

\* A continue at a breakpoint, with a frame and an output line held, whose
\* call succeeded: the mode is RunningCode and the rest is as it was.
C19_Witness ==
    /\ IsKey(taken, {"c"})
    /\ CallSucceeded(reply)
    /\ pre.state = "Breakpoint"
    /\ pre.snapshot.stack # <<>>
    /\ pre.output # <<>>
    /\ app.state = "RunningCode"
    /\ app.snapshot = pre.snapshot

\* The time left until the next tick is due; none once it is due.
TimeToTick(e) == IF e <= TickRate THEN TickRate - e ELSE 0

\* C20: the step of the tick check sends Tick and resets the clock exactly
\* when tick_rate or more has elapsed, and changes neither otherwise; the
\* timeout chosen at the start of an iteration is at most the time left
\* until the next tick is due; and a Tick is sent at most tick_rate after it
\* became due.
C20_TickTimely ==
    /\ [][(evPc = "tick" /\ evPc' = "serve") =>
            IF elapsed >= TickRate
            THEN /\ queue' = send(queue, EventTick, "term", sent["term"] + 1)
                 /\ elapsed' = 0
            ELSE UNCHANGED <<queue, sent, elapsed>>]_vars
    /\ [](evPc = "poll" => poll_timeout(elapsed) <= TimeToTick(elapsed))
    /\ [](evPc = "tick" /\ elapsed >= TickRate => elapsed - TickRate <= TickRate)

\* The step sends one event of the given kind.
Sends(kind) ==
    /\ Len(queue') = Len(queue) + 1
    /\ queue'[Len(queue')].ev.type = kind

\* C21: every iteration of the event thread's loop goes from the terminal
\* poll to the tick check and from there to the push server, whatever the
\* poll gave and whether or not a Tick was sent, so the server is polled
\* between any two Ticks; the poll that precedes it blocks for at most
\* tick_rate; whenever the server is polled a pending update_snapshot call
\* can be served; and serving it sends SnapshotReceived with the pushed
\* snapshot and answers "ok".
C21_PushServerServiced ==
    /\ [][evPc' # evPc =>
            <<evPc, evPc'>> \in {<<"poll", "tick">>, <<"tick", "serve">>, <<"serve", "poll">>}]_vars
    /\ [][Sends("Tick") => (evPc = "tick" /\ evPc' = "serve")]_vars
    /\ [][Sends("SnapshotReceived") =>
            /\ evPc = "serve"
            /\ evPc' = "poll"
            /\ \E s \in SystemSnapshots :
                  /\ queue'[Len(queue')].ev = EventSnapshotReceived(s)
                  /\ update_snapshot(s).result = "ok"]_vars
    /\ [](evPc = "poll" => poll_timeout(elapsed) <= TickRate)
    /\ []((evPc = "serve" /\ CanSend) =>
            \A s \in SystemSnapshots : ENABLED ClockServePush(s, 0))

\* One iteration read a key, sent the Tick that was due and then served a
\* pushed snapshot.
C21_Witness ==
    /\ evPc = "poll"
    /\ Len(queue) = 3
    /\ IsKey(queue[1], SystemKeys)
    /\ queue[2].ev = EventTick
    /\ IsSnapshot(queue[3])
    /\ queue[3].ev.snapshot.stack # <<>>
    /\ elapsed <= MaxServe

====
